---- MODULE Spec2Model ----
(***************************************************************************)
(* Model of src/algorithm.py: the greedy allocation allocate_recipes and   *)
(* the priority cascade fulfil_orders that sequences it over the order     *)
(* table, with the gourmet fallback onto the combined pool.                *)
(*                                                                         *)
(* Arrays are 1-based sequences here (0-based in the source).  The top-k   *)
(* selection np.argpartition leaves the choice among equal stock values    *)
(* unspecified, so it is a nondeterministic choice over every index set    *)
(* that holds N_recipes greatest values.                                   *)
(***************************************************************************)
EXTENDS Integers, Sequences, FiniteSets, TLC

VARIABLES
    box_type,     \* StockDF["box_type"]: the category of every recipe
    stocks,       \* fulfil_orders' local array of stock counts
    Ordersdict1,  \* Ordersdict[1]: labels of axis 1 of OrdersDF (index j)
    Ordersdict2,  \* Ordersdict[2]: labels of axis 2 of OrdersDF (index k)
    OrdersDF,     \* the order table, indexed <<i, j, k>>
    i, j, k,      \* the loop indices of fulfil_orders
    pc,           \* "cell" | "end" | "done"; "alloc" | "returned" for a lone call
    result,       \* what fulfil_orders returned: "True", "False" ("none" before)
    calls,        \* history: the allocate_recipes calls made so far
    stocks0,      \* history: stocks at the start of the run
    prev_stocks,  \* history: stocks before the cell processed last
    last,         \* history: the cell processed last and how it ended
    alloc         \* one stand-alone call of allocate_recipes and its result

vars == <<box_type, stocks, Ordersdict1, Ordersdict2, OrdersDF, i, j, k, pc,
          result, calls, stocks0, prev_stocks, last, alloc>>

(***************************************************************************)
(* Bounds and input domains.                                               *)
(***************************************************************************)
MaxStock == 5

MaxOrders == 2

\* The numbers obtain_numbers can produce for a label.
numberdict == {2, 3, 4}

\* Ordersdict[0]
Ordersdict0 == <<"vegetarian", "gourmet">>

\* Category layouts of the stock table.
BoxTypeChoices ==
    { <<"vegetarian", "vegetarian", "gourmet">>,
      <<"vegetarian", "gourmet", "gourmet">>,
      <<"vegetarian", "gourmet", "vegetarian", "gourmet">> }

\* Axis label lists as load_files leaves them: numbers, sorted descending.
AxisChoices == { <<2>>, <<3, 2>> }

\* The longest stock vector a lone call of allocate_recipes is given.
MaxLevels == CHOOSE n \in {Len(b) : b \in BoxTypeChoices} :
                 \A b \in BoxTypeChoices : Len(b) <= n

\* The lengths of the stock vectors that are compared in pairs.
PairLevels == {0, 1, 2, 3}

(***************************************************************************)
(* Array helpers.                                                          *)
(***************************************************************************)
RECURSIVE SeqSum(_)
SeqSum(s) == IF s = <<>> THEN 0 ELSE Head(s) + SeqSum(Tail(s))

\* (StockDF["box_type"] == "vegetarian").values
veg_stocks(bt) == [x \in DOMAIN bt |-> bt[x] = "vegetarian"]

\* (StockDF["box_type"] == "gourmet").values
gourmet_stocks(bt) == [x \in DOMAIN bt |-> bt[x] = "gourmet"]

\* Position of index x among the indices the mask selects.
MaskRank(mask, x) == Cardinality({y \in 1..x : mask[y]})

\* arr[mask]: a fresh array holding the selected entries, in order.
BoolIndex(arr, mask) ==
    LET n == Cardinality({y \in DOMAIN mask : mask[y]})
    IN  [m \in 1..n |-> arr[CHOOSE x \in DOMAIN mask :
                                   mask[x] /\ MaskRank(mask, x) = m]]

\* arr[mask] = vals
BoolAssign(arr, mask, vals) ==
    [x \in DOMAIN arr |-> IF mask[x] THEN vals[MaskRank(mask, x)] ELSE arr[x]]

(***************************************************************************)
(* allocate_recipes                                                        *)
(***************************************************************************)
\* A selection that takes the N_recipes least-stocked entries.
LeastChoices(stock_levels, N_recipes) ==
    { S \in SUBSET DOMAIN stock_levels :
        /\ Cardinality(S) = N_recipes
        /\ \A a \in S : \A b \in DOMAIN stock_levels \ S :
               stock_levels[a] <= stock_levels[b] }

\* A selection that may pick any N_recipes entries, not the greatest.
AnyChoices(stock_levels, N_recipes) ==
    { S \in SUBSET DOMAIN stock_levels : Cardinality(S) = N_recipes }

\* np.argpartition(stock_levels, -N_recipes)[-N_recipes:], for every way of
\* breaking ties: index sets of size N_recipes holding the greatest values.
recipe_choices(stock_levels, N_recipes) ==
    { S \in SUBSET DOMAIN stock_levels :
        /\ Cardinality(S) = N_recipes
        /\ \A a \in S : \A b \in DOMAIN stock_levels \ S :
               stock_levels[a] >= stock_levels[b] }

\* A check that looks at the greatest selected value instead of the least.
ChoicesMax(stock_levels, S) ==
    CHOOSE m \in {stock_levels[a] : a \in S} :
        \A a \in S : stock_levels[a] <= m

\* stock_levels[recipe_choices].min()
ChoicesMin(stock_levels, S) ==
    CHOOSE m \in {stock_levels[a] : a \in S} :
        \A a \in S : stock_levels[a] >= m

\* A subtraction that takes one unit too many from the first selected entry.
SubtractOver(stock_levels, S, N_portions) ==
    [x \in DOMAIN stock_levels |->
        IF x \in S
        THEN stock_levels[x] - N_portions
                 - (IF \A a \in S : x <= a THEN 1 ELSE 0)
        ELSE stock_levels[x]]

\* stock_levels[recipe_choices] = stock_levels[recipe_choices] - N_portions
Subtract(stock_levels, S, N_portions) ==
    [x \in DOMAIN stock_levels |->
        IF x \in S THEN stock_levels[x] - N_portions ELSE stock_levels[x]]

\* The loop over N_orders_left: the set of results it can return.
RECURSIVE AllocLoop(_, _, _, _)
AllocLoop(N_orders_left, stock_levels, N_portions, N_recipes) ==
    IF N_orders_left = 0
    THEN { [stock |-> stock_levels, left |-> 0] }
    ELSE UNION {
           IF ChoicesMin(stock_levels, S) < N_portions
           THEN { [stock |-> stock_levels, left |-> N_orders_left] }
           ELSE AllocLoop(N_orders_left - 1,
                          Subtract(stock_levels, S, N_portions),
                          N_portions, N_recipes)
           : S \in recipe_choices(stock_levels, N_recipes) }

allocate_recipes(N_orders, stock_levels, N_portions, N_recipes) ==
    IF Len(stock_levels) < N_recipes
    THEN { [stock |-> stock_levels, left |-> N_orders] }
    ELSE AllocLoop(N_orders, stock_levels, N_portions, N_recipes)

(***************************************************************************)
(* fulfil_orders                                                           *)
(***************************************************************************)
Cells(J, K) == { <<a, b, c>> : a \in 1..Len(Ordersdict0), b \in 1..J, c \in 1..K }

\* Every table over the cells whose order counts sum to at most budget.
RECURSIVE TablesOver(_, _)
TablesOver(cells, budget) ==
    IF cells = {}
    THEN { <<>> }
    ELSE LET c == CHOOSE x \in cells : TRUE
         IN  UNION { { (c :> n) @@ t : t \in TablesOver(cells \ {c}, budget - n) }
                     : n \in 0..budget }

StockVectors(len) == [1..len -> 0..MaxStock]

NoResult == [stock |-> <<>>, left |-> 0]

NoCall == [N_orders |-> 0, stock_levels |-> <<>>, N_portions |-> 0,
           N_recipes |-> 0, stock_more |-> <<>>, ret |-> NoResult,
           ret_more |-> NoResult]

NoCell == [path |-> "none", i |-> 0, j |-> 0, k |-> 0, N_orders |-> 0]

Init ==
    /\ Ordersdict1 \in AxisChoices
    /\ Ordersdict2 \in AxisChoices
    /\ OrdersDF \in TablesOver(Cells(Len(Ordersdict1), Len(Ordersdict2)), MaxOrders)
    /\ box_type \in BoxTypeChoices
    /\ stocks \in StockVectors(Len(box_type))
    /\ i = 1 /\ j = 1 /\ k = 1
    /\ pc = "cell"
    /\ result = "none"
    /\ calls = <<>>
    /\ stocks0 = stocks
    /\ prev_stocks = stocks
    /\ last = NoCell
    /\ alloc = NoCall

\* for j in range(shape[1]): for i in range(shape[0]): for k in range(shape[2])
\* the indices of the cell after <<i, j, k>>, or "end" when the loops are over.
NextCell ==
    IF k < Len(Ordersdict2) THEN [pc |-> "cell", i |-> i, j |-> j, k |-> k + 1]
    ELSE IF i < Len(Ordersdict0) THEN [pc |-> "cell", i |-> i + 1, j |-> j, k |-> 1]
    ELSE IF j < Len(Ordersdict1) THEN [pc |-> "cell", i |-> 1, j |-> j + 1, k |-> 1]
    ELSE [pc |-> "end", i |-> i, j |-> j, k |-> k]

Advance ==
    /\ pc' = NextCell.pc
    /\ i' = NextCell.i
    /\ j' = NextCell.j
    /\ k' = NextCell.k
    /\ UNCHANGED result

ReturnFalse ==
    /\ pc' = "done"
    /\ result' = "False"
    /\ UNCHANGED <<i, j, k>>

\* The third argument of every allocate_recipes call in fulfil_orders.
PortionsArg(jj, kk) == Ordersdict2[kk]

\* The fourth argument of every allocate_recipes call in fulfil_orders.
RecipesArg(jj, kk) == Ordersdict1[jj]

Call(pool, n, jj, kk, res) ==
    [i |-> i, j |-> jj, k |-> kk, pool |-> pool, N_orders |-> n,
     N_portions |-> PortionsArg(jj, kk), N_recipes |-> RecipesArg(jj, kk),
     orders_left |-> res.left]

\* A vegetarian branch that writes the partial allocation back before it fails.
VegCommitAlways(cur, mask, res) == BoolAssign(cur, mask, res.stock)

\* if orders_left > 0: return False  else: stocks[veg_stocks] = stocks_left
VegCommit(cur, mask, res) ==
    IF res.left > 0 THEN cur ELSE BoolAssign(cur, mask, res.stock)

\* A vegetarian branch that allocates from the whole pool.
VegPoolAll(bt) == [x \in DOMAIN bt |-> TRUE]

\* the mask of the pool a vegetarian cell allocates from
VegPool(bt) == veg_stocks(bt)

\* if Ordersdict[0][i] == "vegetarian":
VegetarianCell ==
    /\ pc = "cell"
    /\ Ordersdict0[i] = "vegetarian"
    /\ \E res \in allocate_recipes(OrdersDF[<<i, j, k>>],
                                   BoolIndex(stocks, VegPool(box_type)),
                                   PortionsArg(j, k), RecipesArg(j, k)) :
         /\ calls' = Append(calls, Call("vegetarian", OrdersDF[<<i, j, k>>], j, k, res))
         /\ stocks' = VegCommit(stocks, VegPool(box_type), res)
         /\ prev_stocks' = stocks
         /\ last' = [path |-> IF res.left > 0 THEN "veg_fail" ELSE "veg_ok",
                     i |-> i, j |-> j, k |-> k, N_orders |-> OrdersDF[<<i, j, k>>]]
         /\ IF res.left > 0 THEN ReturnFalse ELSE Advance
    /\ UNCHANGED <<box_type, Ordersdict1, Ordersdict2, OrdersDF, stocks0, alloc>>

\* elif Ordersdict[0][i] == "gourmet":
GourmetCell ==
    /\ pc = "cell"
    /\ Ordersdict0[i] = "gourmet"
    /\ \E first \in allocate_recipes(OrdersDF[<<i, j, k>>],
                                     BoolIndex(stocks, gourmet_stocks(box_type)),
                                     PortionsArg(j, k), RecipesArg(j, k)) :
         IF first.left > 0
         THEN \* the retry works on stocks itself, in place, and sees none of
              \* what the gourmet-only attempt subtracted from its copy
              \E second \in allocate_recipes(first.left, stocks,
                                             PortionsArg(j, k), RecipesArg(j, k)) :
                /\ calls' = calls \o << Call("gourmet", OrdersDF[<<i, j, k>>], j, k, first),
                                        Call("combined", first.left, j, k, second) >>
                /\ stocks' = second.stock
                /\ prev_stocks' = stocks
                /\ last' = [path |-> IF second.left > 0 THEN "fallback_fail"
                                                         ELSE "fallback_ok",
                            i |-> i, j |-> j, k |-> k,
                            N_orders |-> OrdersDF[<<i, j, k>>]]
                /\ IF second.left > 0 THEN ReturnFalse ELSE Advance
         ELSE /\ calls' = Append(calls, Call("gourmet", OrdersDF[<<i, j, k>>], j, k, first))
              /\ stocks' = BoolAssign(stocks, gourmet_stocks(box_type), first.stock)
              /\ prev_stocks' = stocks
              /\ last' = [path |-> "gourmet_ok", i |-> i, j |-> j, k |-> k,
                          N_orders |-> OrdersDF[<<i, j, k>>]]
              /\ Advance
    /\ UNCHANGED <<box_type, Ordersdict1, Ordersdict2, OrdersDF, stocks0, alloc>>

\* Reaching the end of the loop: return True
ReturnTrue ==
    /\ pc = "end"
    /\ pc' = "done"
    /\ result' = "True"
    /\ UNCHANGED <<box_type, stocks, Ordersdict1, Ordersdict2, OrdersDF, i, j, k,
                   calls, stocks0, prev_stocks, last, alloc>>

Next == VegetarianCell \/ GourmetCell \/ ReturnTrue

Spec == Init /\ [][Next]_vars

(***************************************************************************)
(* A stand-alone call of allocate_recipes (SpecAlloc), and the same call   *)
(* made on two stock vectors, the second at least as large as the first in *)
(* every entry (SpecPair).                                                 *)
(***************************************************************************)
IdleFulfil ==
    /\ box_type = <<>> /\ stocks = <<>> /\ stocks0 = <<>> /\ prev_stocks = <<>>
    /\ Ordersdict1 = <<>> /\ Ordersdict2 = <<>> /\ OrdersDF = <<>>
    /\ i = 1 /\ j = 1 /\ k = 1
    /\ result = "none"
    /\ calls = <<>>
    /\ last = NoCell

InitAlloc ==
    /\ \E n \in 0..MaxOrders, p \in numberdict, r \in numberdict :
       \E s \in UNION { StockVectors(len) : len \in 0..MaxLevels } :
           alloc = [N_orders |-> n, stock_levels |-> s, N_portions |-> p,
                    N_recipes |-> r, stock_more |-> s,
                    ret |-> NoResult, ret_more |-> NoResult]
    /\ pc = "alloc"
    /\ IdleFulfil

CallAllocate ==
    /\ pc = "alloc"
    /\ \E r1 \in allocate_recipes(alloc.N_orders, alloc.stock_levels,
                                  alloc.N_portions, alloc.N_recipes) :
           alloc' = [alloc EXCEPT !.ret = r1]
    /\ pc' = "returned"
    /\ UNCHANGED <<box_type, stocks, Ordersdict1, Ordersdict2, OrdersDF, i, j, k,
                   result, calls, stocks0, prev_stocks, last>>

NextAlloc == CallAllocate

SpecAlloc == InitAlloc /\ [][NextAlloc]_vars

\* The vectors of the same length as s that are >= s in every entry.
AtLeast(s) == { t \in StockVectors(Len(s)) : \A x \in DOMAIN s : t[x] >= s[x] }

InitPair ==
    /\ \E n \in 0..MaxOrders, p \in numberdict, r \in numberdict :
       \E s \in UNION { StockVectors(len) : len \in PairLevels } :
       \E t \in AtLeast(s) :
           alloc = [N_orders |-> n, stock_levels |-> s, N_portions |-> p,
                    N_recipes |-> r, stock_more |-> t,
                    ret |-> NoResult, ret_more |-> NoResult]
    /\ pc = "alloc"
    /\ IdleFulfil

CallPair ==
    /\ pc = "alloc"
    /\ \E r1 \in allocate_recipes(alloc.N_orders, alloc.stock_levels,
                                  alloc.N_portions, alloc.N_recipes) :
       \E r2 \in allocate_recipes(alloc.N_orders, alloc.stock_more,
                                  alloc.N_portions, alloc.N_recipes) :
           alloc' = [alloc EXCEPT !.ret = r1, !.ret_more = r2]
    /\ pc' = "returned"
    /\ UNCHANGED <<box_type, stocks, Ordersdict1, Ordersdict2, OrdersDF, i, j, k,
                   result, calls, stocks0, prev_stocks, last>>

NextPair == CallPair

SpecPair == InitPair /\ [][NextPair]_vars

(***************************************************************************)
(* Properties of fulfil_orders, checked under Spec.                        *)
(***************************************************************************)
\* order_count x the two axis labels of the cell, summed over a set of cells
RECURSIVE Demand(_)
Demand(cells) ==
    IF cells = {} THEN 0
    ELSE LET c == CHOOSE x \in cells : TRUE
         IN  OrdersDF[c] * Ordersdict1[c[2]] * Ordersdict2[c[3]]
               + Demand(cells \ {c})

AllCells == DOMAIN OrdersDF

VegCells == { c \in AllCells : Ordersdict0[c[1]] = "vegetarian" }

\* C1: whenever fulfil_orders returns True, the whole batch fits the initial
\* stock (sum of count x portion x recipes <= total initial stock) and the
\* vegetarian part of the batch fits the initial vegetarian stock.
C1_TrueMeansCovered ==
    (pc = "done" /\ result = "True") =>
        /\ Demand(AllCells) <= SeqSum(stocks0)
        /\ Demand(VegCells) <= SeqSum(BoolIndex(stocks0, veg_stocks(box_type)))

\* C2: after a gourmet cell that needed the combined-pool retry and got it,
\* the pool is down by all n orders of the cell: total stock after = total
\* stock before - n x portion_size x recipes_per_box.
C2_FallbackDepletesAll ==
    last.path = "fallback_ok" =>
        SeqSum(stocks) = SeqSum(prev_stocks)
                           - last.N_orders * Ordersdict1[last.j] * Ordersdict2[last.k]

\* C3: every allocate_recipes call for cell <<i, j, k>> gets N_portions =
\* Ordersdict[1][j] (the label logged as portions) and N_recipes =
\* Ordersdict[2][k] (the label logged as recipes-per-box).
C3_ArgumentsMatchLabels ==
    \A n \in DOMAIN calls :
        /\ calls[n].N_portions = Ordersdict1[calls[n].j]
        /\ calls[n].N_recipes = Ordersdict2[calls[n].k]

\* C4: along the calls of a run the portion size never increases from one
\* call to the next; for equal portion size vegetarian calls come before
\* gourmet calls; for equal portion size and category the recipes-per-box
\* value never increases.
C4_PriorityOrder ==
    /\ \A n \in DOMAIN calls :
           n > 1 => calls[n].N_portions <= calls[n - 1].N_portions
    /\ \A m, n \in DOMAIN calls :
           (m < n /\ calls[m].N_portions = calls[n].N_portions)
             => ~(Ordersdict0[calls[m].i] = "gourmet"
                    /\ Ordersdict0[calls[n].i] = "vegetarian")
    /\ \A m, n \in DOMAIN calls :
           (m < n /\ calls[m].N_portions = calls[n].N_portions
                  /\ calls[m].i = calls[n].i)
             => calls[n].N_recipes <= calls[m].N_recipes

\* The cell processed last left every entry of category cat as it was.
Unchanged(cat) ==
    \A x \in DOMAIN stocks : box_type[x] = cat => stocks[x] = prev_stocks[x]

\* C5: a vegetarian cell, passed or failed, leaves every gourmet entry as
\* it was, and a gourmet cell served from gourmet stock alone leaves every
\* vegetarian entry as it was; so entries of both categories change only
\* in a cell that went through the combined-pool retry.
C5_CategoryFrame ==
    /\ last.path \in {"veg_ok", "veg_fail"} => Unchanged("gourmet")
    /\ last.path = "gourmet_ok" => Unchanged("vegetarian")
    /\ (~Unchanged("vegetarian") /\ ~Unchanged("gourmet"))
         => last.path \in {"fallback_ok", "fallback_fail"}

\* C5 witness: a gourmet cell served from gourmet stock alone took stock,
\* in a run where a vegetarian cell had served orders before it, with
\* vegetarian stock still there to be taken.
C5_Witness ==
    /\ last.path = "gourmet_ok"
    /\ stocks # prev_stocks
    /\ \E x \in DOMAIN stocks : box_type[x] = "vegetarian" /\ stocks[x] > 0
    /\ \E n \in DOMAIN calls :
           /\ calls[n].pool = "vegetarian"
           /\ calls[n].N_orders > 0
           /\ calls[n].orders_left = 0

\* C6: no stock count is ever negative.
C6_NonNegative == \A x \in DOMAIN stocks : stocks[x] >= 0

\* C6 witness: a combined-pool retry served an order, emptied an entry of
\* the pool in place and then failed, so the run ended in False.
C6_Witness ==
    /\ last.path = "fallback_fail"
    /\ result = "False"
    /\ \E x \in DOMAIN stocks : stocks[x] = 0 /\ prev_stocks[x] > 0

\* C8: a vegetarian call that leaves orders unmet is the last call of the
\* run: fulfil_orders has returned False, and the pool is what it was before
\* the failing cell.
C8_VegFailureStops ==
    \A n \in DOMAIN calls :
        (calls[n].pool = "vegetarian" /\ calls[n].orders_left > 0) =>
            /\ n = Len(calls)
            /\ pc = "done"
            /\ result = "False"
            /\ stocks = prev_stocks

\* C8 witness: a vegetarian cell that served some of its orders and then
\* failed, after an earlier cell had been processed.
C8_Witness ==
    /\ Len(calls) > 1
    /\ calls[Len(calls)].pool = "vegetarian"
    /\ calls[Len(calls)].orders_left > 0
    /\ calls[Len(calls)].orders_left < calls[Len(calls)].N_orders

(***************************************************************************)
(* Properties of allocate_recipes: C7 is checked under SpecPair, C9 and    *)
(* C10 under SpecAlloc.                                                    *)
(***************************************************************************)
Served == alloc.N_orders - alloc.ret.left

\* C7: with every stock value at least as large, the unmet count is no
\* larger, however ties are broken in either call.
C7_Monotone ==
    pc = "returned" => alloc.ret_more.left <= alloc.ret.left

\* C7 witness: a larger stock vector that serves strictly more orders.
C7_Witness ==
    /\ pc = "returned"
    /\ alloc.stock_more # alloc.stock_levels
    /\ alloc.ret_more.left < alloc.ret.left
    /\ alloc.ret.left < alloc.N_orders

\* The largest number of boxes, up to cap, that some assignment forms from
\* stock s: each box takes p from r distinct entries, none going below 0.
RECURSIVE MaxBoxes(_, _, _, _)
MaxBoxes(s, p, r, cap) ==
    IF cap = 0 THEN 0
    ELSE LET ways == { S \in SUBSET DOMAIN s :
                         Cardinality(S) = r /\ \A x \in S : s[x] >= p }
             counts == { 1 + MaxBoxes([x \in DOMAIN s |->
                                          IF x \in S THEN s[x] - p ELSE s[x]],
                                      p, r, cap - 1) : S \in ways }
         IN  IF ways = {} THEN 0
             ELSE CHOOSE m \in counts : \A c \in counts : c <= m

\* C9: one call serves min(order_count, M) orders, M the largest number of
\* boxes any assignment could form from the stock subset.
C9_ServesMaximum ==
    pc = "returned" =>
        Served = MaxBoxes(alloc.stock_levels, alloc.N_portions,
                          alloc.N_recipes, alloc.N_orders)

\* C9 witness: two orders served where the selection had a real choice.
C9_Witness ==
    /\ pc = "returned"
    /\ Served = 2
    /\ Len(alloc.stock_levels) > alloc.N_recipes
    /\ \E x, y \in DOMAIN alloc.stock_levels :
           alloc.stock_levels[x] # alloc.stock_levels[y]

\* The stock vectors that m boxes, each taking p from r distinct entries of
\* any kind, can leave behind.
RECURSIVE AfterBoxes(_, _, _, _)
AfterBoxes(s, p, r, m) ==
    IF m = 0 THEN { s }
    ELSE UNION { AfterBoxes([x \in DOMAIN s |->
                                IF x \in S THEN s[x] - p ELSE s[x]], p, r, m - 1)
                 : S \in { T \in SUBSET DOMAIN s : Cardinality(T) = r } }

\* C10: with enough recipes, the unmet count u is in 0..order_count, the
\* returned stock is the input after exactly order_count - u boxes (total
\* down by (order_count - u) x portion_size x recipes_per_box), and if
\* u > 0 fewer than recipes_per_box entries still hold portion_size.
C10_Accounting ==
    (pc = "returned" /\ Len(alloc.stock_levels) >= alloc.N_recipes) =>
        /\ alloc.ret.left \in 0..alloc.N_orders
        /\ alloc.ret.stock \in AfterBoxes(alloc.stock_levels, alloc.N_portions,
                                          alloc.N_recipes, Served)
        /\ SeqSum(alloc.ret.stock) =
             SeqSum(alloc.stock_levels)
               - Served * alloc.N_portions * alloc.N_recipes
        /\ alloc.ret.left > 0 =>
             Cardinality({ x \in DOMAIN alloc.ret.stock :
                             alloc.ret.stock[x] >= alloc.N_portions })
               < alloc.N_recipes

\* C10 witness: a call that served one order and stopped at the next.
C10_Witness ==
    /\ pc = "returned"
    /\ Len(alloc.stock_levels) >= alloc.N_recipes
    /\ alloc.ret.left > 0
    /\ Served > 0

====
